---- MODULE Spec2Model ----
(***************************************************************************)
(* Model of the SciXTracer local index (sxt_local/index): the SQLite      *)
(* tables of one dataset, the row-level operations of queries.py and the  *)
(* facade operations of SxIndexLocal that call them.                      *)
(*                                                                         *)
(* Tables are kept as the rows SQLite holds: annotation tables are         *)
(* sequences of rows in rowid order, `location` is the set of location     *)
(* ids, `data` the set of data rows.  Every facade operation is one        *)
(* action; `last` records the last call, its argument and what it returned *)
(* or raised.                                                              *)
(***************************************************************************)
EXTENDS Integers, Sequences, FiniteSets, TLC

VARIABLES location, annotation_key, location_annotation, data, data_annotation,
          last, dirs, conn, opened, committed, workspace, closes

vars == <<location, annotation_key, location_annotation, data, data_annotation,
          last, dirs, conn, opened, committed, workspace, closes>>

\* `workspace` is the facade's workspace and `dirs` the set of dataset
\* directories on disk, each <<workspace, uri>>; `conn` is the facade's dict
\* of connections as a set of <<key, handle>>, and `opened` the directory of
\* the index.db of every sqlite3.connect() that succeeded, in order: a handle
\* is the position of its connect() in `opened`.  `closes` is empty until
\* the facade is torn down and then gives, per handle, the number of close()
\* calls made on it.

\* The five table variables are the tables as the connection of the dataset
\* reads them, the statements of its open transaction included; `committed`
\* is the tables as of the last conn.commit().
tables == <<location, annotation_key, location_annotation, data, data_annotation,
            committed>>

\* `last` is the last call made on the facade: <<operation, argument, "ok" or
\* the error raised, value returned>>; `ret` reads it by name.
ret == [call |-> last[1], param |-> last[2], status |-> last[3], value |-> last[4]]

-----------------------------------------------------------------------------
(* Bounds of the model and the input domains.                              *)

\* Locations of a dataset.
MaxLoc == 2
\* Rows of location_annotation under SpecLocation.
MaxLocAnn == 3
\* Rows of data_annotation under SpecView.
MaxDataAnn == 2
\* Rows of location_annotation under Spec and SpecView.
MaxLocAnnData == 1
\* Mappings in the list given to query_data_loc_set.
MaxTuple == 2
\* Largest id a data row is given (delete frees uris, not ids).
MaxDataId == 3
\* Rows of data_annotation under Spec.
MaxDataAnnSpec == 1
\* Items of the annotations given to create_data and, under Spec and
\* SpecView, to new_location.
MaxDictLen == 1

Keys == {"stain", "channel"}

\* Python values a caller passes as annotation values, written as Python
\* literals: a str, an int and a bool.
PyValues == {"'a'", "1", "True"}

URIs == {"u1", "u2"}

\* Storage type names a caller passes; only the ones in storage_type resolve.
StorageArgs == {"image", "bogus"}

\* A Python None argument; a present argument x is passed as {x}.
None == {}

Some(opt) == CHOOSE x \in opt : TRUE

\* dict[str, value] arguments: insertion-ordered, distinct keys.
RECURSIVE SeqsUpTo(_, _)
SeqsUpTo(S, n) ==
    IF n = 0 THEN {<<>>}
    ELSE LET shorter == SeqsUpTo(S, n - 1)
         IN  shorter \cup {Append(s, x) : s \in shorter, x \in S}

Dicts ==
    {s \in SeqsUpTo(Keys \X PyValues, Cardinality(Keys)) :
        \A i, j \in DOMAIN s : i # j => s[i][1] # s[j][1]}

\* The same dicts without their order, as a query reads them.
Mappings == UNION {[D -> PyValues] : D \in SUBSET Keys}

AsMapping(items) ==
    [k \in {items[i][1] : i \in DOMAIN items} |->
        (CHOOSE p \in {items[i] : i \in DOMAIN items} : p[1] = k)[2]]

-----------------------------------------------------------------------------
(* Value conversions.                                                      *)

\* f"...'{value}'": Python's str() of the value, pasted into the SQL text.
FString(v) ==
    CASE v = "'a'" -> "a"
      [] v = "1" -> "1"
      [] v = "True" -> "True"

\* cursor.execute(sql, [.., value]): sqlite3 binds a str as text and an int
\* or a bool as an integer, which the text column `value` stores as its
\* decimal text.
BindText(v) ==
    CASE v = "'a'" -> "a"
      [] v = "1" -> "1"
      [] v = "True" -> "1"

\* SQL NULL, the value of a scalar subselect with no row.
NULL == 0

-----------------------------------------------------------------------------
(* The database of one dataset, as a value.                                *)

DB ==
    [location |-> location,
     annotation_key |-> annotation_key,
     location_annotation |-> location_annotation,
     data |-> data,
     data_annotation |-> data_annotation]

\* conn.commit(): the tables become the ones the operation built.
Commit(d) ==
    /\ location' = d.location
    /\ annotation_key' = d.annotation_key
    /\ location_annotation' = d.location_annotation
    /\ data' = d.data
    /\ data_annotation' = d.data_annotation
    /\ committed' = d

\* The statements an operation ran without reaching a conn.commit(): the
\* connection reads them, and they stay in its open transaction.
Pending(d) ==
    /\ location' = d.location
    /\ annotation_key' = d.annotation_key
    /\ location_annotation' = d.location_annotation
    /\ data' = d.data
    /\ data_annotation' = d.data_annotation
    /\ committed' = committed

\* schema.sql as init_database leaves it: every table empty but storage_type.
storage_type == {"image", "table"}

Range(s) == {s[i] : i \in DOMAIN s}

RECURSIVE SetMax(_)
SetMax(S) ==
    IF S = {} THEN 0
    ELSE LET x == CHOOSE y \in S : TRUE
             m == SetMax(S \ {x})
         IN  IF x > m THEN x ELSE m

-----------------------------------------------------------------------------
(* queries.py: row-level inserts.                                          *)

insert_location(d) ==
    LET id == SetMax(d.location) + 1
    IN  [db |-> [d EXCEPT !.location = @ \cup {id}], id |-> id]

\* SELECT id FROM annotation_key WHERE name=?  (fetchone: the first row)
KeyRows(d, key) == {i \in DOMAIN d.annotation_key : d.annotation_key[i] = key}

\* A variant that inserts the name whether it is there or not.
insert_annotation_key_appending(d, key) ==
    [db |-> [d EXCEPT !.annotation_key = Append(@, key)],
     id |-> Len(d.annotation_key) + 1]

insert_annotation_key(d, key) ==
    IF KeyRows(d, key) = {}
    THEN [db |-> [d EXCEPT !.annotation_key = Append(@, key)],
          id |-> Len(d.annotation_key) + 1]
    ELSE [db |-> d, id |-> CHOOSE i \in KeyRows(d, key) : \A j \in KeyRows(d, key) : i <= j]

\* A variant that keeps one value per (location, key): the new row replaces
\* the rows the location already has under the key.
insert_location_annotation_replacing(d, location_id, key, value) ==
    LET r == insert_annotation_key(d, key)
    IN  [r.db EXCEPT !.location_annotation =
            Append(SelectSeq(@, LAMBDA row : ~(row.location_id = location_id
                                               /\ row.key_id = r.id)),
                   [location_id |-> location_id,
                    key_id |-> r.id,
                    value |-> BindText(value)])]

insert_location_annotation(d, location_id, key, value) ==
    LET r == insert_annotation_key(d, key)
    IN  [r.db EXCEPT !.location_annotation =
            Append(@, [location_id |-> location_id,
                       key_id |-> r.id,
                       value |-> BindText(value)])]


\* storage_type_id: the id of the storage type, the name standing for its id.
storage_type_id(d, name) ==
    IF name \in storage_type
    THEN [err |-> "ok", id |-> name]
    ELSE [err |-> "UnknownStorageType", id |-> name]

\* schema.sql declares data.uri UNIQUE: an INSERT of a uri that a row already
\* has raises sqlite3.IntegrityError (DuplicateURI).
UriIsFree(d, uri) == \A row \in d.data : row.uri # uri

\* SQLite gives a new row the id after the largest one in the table.
NextRowId(rows) == SetMax({row.id : row \in rows}) + 1

\* A variant that inserts the row whether or not the uri is taken.
insert_data_any_uri(d, location_id, uri, type, metadata_uri) ==
    LET t == storage_type_id(d, type)
    IN  IF t.err # "ok" THEN [err |-> t.err, db |-> d]
        ELSE [err |-> "ok",
              db |-> [d EXCEPT !.data = @ \cup
                        {[id |-> NextRowId(d.data),
                          location_id |-> location_id,
                          type_id |-> t.id,
                          uri |-> uri,
                          metadata_uri |-> metadata_uri]}]]

insert_data(d, location_id, uri, type, metadata_uri) ==
    LET t == storage_type_id(d, type)
    IN  IF t.err # "ok" THEN [err |-> t.err, db |-> d]
        ELSE IF ~UriIsFree(d, uri) THEN [err |-> "DuplicateURI", db |-> d]
        ELSE [err |-> "ok",
              db |-> [d EXCEPT !.data = @ \cup
                        {[id |-> NextRowId(d.data),
                          location_id |-> location_id,
                          type_id |-> t.id,
                          uri |-> uri,
                          metadata_uri |-> metadata_uri]}]]

\* (SELECT id FROM data WHERE uri=?)
DataIdOf(d, uri) ==
    IF \E row \in d.data : row.uri = uri
    THEN (CHOOSE row \in d.data : row.uri = uri).id
    ELSE NULL

\* schema.sql declares data_annotation.data_id as a reference to a data row
\* that may not be NULL: annotating an unknown uri raises (MissingEntity).
DataIdRequired == TRUE

\* A variant that inserts the row with whatever the subselect gives.
insert_data_annotation_any_id(d, data_uri, key, value) ==
    LET r == insert_annotation_key(d, key)
    IN  [err |-> "ok",
         db |-> [r.db EXCEPT !.data_annotation =
                    Append(@, [data_id |-> DataIdOf(r.db, data_uri),
                               key_id |-> r.id,
                               value |-> BindText(value)])]]

\* The key is interned and committed before the row is inserted.
insert_data_annotation(d, data_uri, key, value) ==
    LET r == insert_annotation_key(d, key)
    IN  IF DataIdRequired /\ DataIdOf(r.db, data_uri) = NULL
        THEN [err |-> "MissingEntity", db |-> r.db]
        ELSE [err |-> "ok",
              db |-> [r.db EXCEPT !.data_annotation =
                        Append(@, [data_id |-> DataIdOf(r.db, data_uri),
                                   key_id |-> r.id,
                                   value |-> BindText(value)])]]

\* The first statement of query_delete:
\* DELETE FROM data_annotation WHERE data_id = (SELECT id FROM data WHERE uri=?)
delete_data_annotation(d, uri) ==
    [d EXCEPT !.data_annotation =
        SelectSeq(@, LAMBDA r : ~(DataIdOf(d, uri) # NULL /\ r.data_id = DataIdOf(d, uri)))]

\* A variant that deletes the data row and leaves its annotation rows.
query_delete_data_row_only(d, uri) ==
    [d EXCEPT !.data = {row \in @ : row.uri # uri}]

query_delete(d, uri) ==
    LET kept == SelectSeq(d.data_annotation,
                          LAMBDA r : ~(DataIdOf(d, uri) # NULL /\ r.data_id = DataIdOf(d, uri)))
    IN  [d EXCEPT !.data_annotation = kept,
                  !.data = {row \in @ : row.uri # uri}]

-----------------------------------------------------------------------------
(* queries.py: the predicate compiler and the location query.              *)

\* (SELECT id FROM annotation_key WHERE name='{key}')
KeyIdOf(d, key) ==
    IF KeyRows(d, key) = {} THEN NULL
    ELSE CHOOSE i \in KeyRows(d, key) : \A j \in KeyRows(d, key) : i <= j

\* The compiled text is an OR of (key_id = <id of key> AND value='<value>'),
\* evaluated on one annotation row; a comparison with NULL is not true.
query_annotations_conditions(d, annotations, row) ==
    \E key \in DOMAIN annotations :
        /\ KeyIdOf(d, key) # NULL
        /\ row.key_id = KeyIdOf(d, key)
        /\ row.value = FString(annotations[key])

\* COUNT(1) ... GROUP BY <id> of the rows that satisfy the conditions.
MatchCount(d, rows, field, id, annotations) ==
    Cardinality({i \in DOMAIN rows :
        /\ rows[i][field] = id
        /\ query_annotations_conditions(d, annotations, rows[i])})

\* A variant that reads the annotated locations whatever the mapping.
query_location_annotated_only(d, annotations) ==
    LET M == IF annotations = None THEN <<>> ELSE Some(annotations)
    IN  {l \in {r.location_id : r \in Range(d.location_annotation)} :
            MatchCount(d, d.location_annotation, "location_id", l, M)
                = Cardinality(DOMAIN M)}

query_location(d, annotations) ==
    IF annotations = None \/ DOMAIN Some(annotations) = {}
    THEN d.location
    ELSE LET M == Some(annotations)
         IN  {l \in {r.location_id : r \in Range(d.location_annotation)} :
                /\ MatchCount(d, d.location_annotation, "location_id", l, M)
                     = Cardinality(DOMAIN M)}

-----------------------------------------------------------------------------
(* queries.py: the intersection engine for data.                           *)

\* A result row of a data query: (location_id, uri, type, metadata_uri).
DataRow(row) ==
    [location_id |-> row.location_id,
     uri |-> row.uri,
     type |-> row.type_id,
     metadata_uri |-> row.metadata_uri]

\* Rows of an annotation table whose key is one of the requested names
\* (INNER JOIN annotation_key ... WHERE ak.name IN (...)).
RowsWithKeyIn(d, rows, names) ==
    {i \in DOMAIN rows :
        /\ rows[i].key_id \in DOMAIN d.annotation_key
        /\ d.annotation_key[rows[i].key_id] \in names}

query_data_with_annotations_both(d, annotations) ==
    LET n == Cardinality(DOMAIN annotations)
        loc_num(l) == MatchCount(d, d.location_annotation, "location_id", l, annotations)
        data_num(id) == MatchCount(d, d.data_annotation, "data_id", id, annotations)
    IN  {DataRow(row) : row \in
            {row \in d.data :
                /\ data_num(row.id) > 0
                /\ loc_num(row.location_id) > 0
                /\ loc_num(row.location_id) + data_num(row.id) = n}}

query_data_with_annotations_data(d, annotations) ==
    LET n == Cardinality(DOMAIN annotations)
        data_num(id) == MatchCount(d, d.data_annotation, "data_id", id, annotations)
    IN  {DataRow(row) : row \in
            {row \in d.data : data_num(row.id) > 0 /\ data_num(row.id) = n}}

query_data_with_annotations_loc(d, annotations) ==
    LET n == Cardinality(DOMAIN annotations)
        loc_num(l) == MatchCount(d, d.location_annotation, "location_id", l, annotations)
    IN  {DataRow(row) : row \in
            {row \in d.data :
                loc_num(row.location_id) > 0 /\ loc_num(row.location_id) = n}}

query_data_with_annotations(d, annotations) ==
    LET loc_ann == RowsWithKeyIn(d, d.location_annotation, DOMAIN annotations)
        data_ann == RowsWithKeyIn(d, d.data_annotation, DOMAIN annotations)
    IN  IF loc_ann # {} /\ data_ann # {}
        THEN [err |-> "ok", rows |-> query_data_with_annotations_both(d, annotations)]
        ELSE IF loc_ann # {} /\ data_ann = {}
        THEN [err |-> "ok", rows |-> query_data_with_annotations_loc(d, annotations)]
        ELSE IF loc_ann = {} /\ data_ann # {}
        THEN [err |-> "ok", rows |-> query_data_with_annotations_data(d, annotations)]
        ELSE [err |-> "NoMatchingAnnotations", rows |-> {}]

-----------------------------------------------------------------------------
(* queries.py: the tuple composer.                                         *)

\* DataFrame.merge on location_id: every pairing of a row of the left frame
\* with a row of the right frame at the same location.  A row of the frame
\* is the tuple of its data, in the order of the mappings.
\* A variant that pairs the rows whatever their locations.
Merge_any_location(dfo, df_) ==
    {Append(left, right) : left \in dfo, right \in df_}

Merge(dfo, df_) ==
    {t \in {Append(left, right) : left \in dfo, right \in df_} :
        t[1].location_id = t[Len(t)].location_id}

RECURSIVE MergeAll(_, _)
MergeAll(dfo, out_data) ==
    IF out_data = <<>> THEN dfo
    ELSE MergeAll(Merge(dfo, Head(out_data)), Tail(out_data))

query_data_tuples(d, annotations) ==
    LET out_data == [i \in DOMAIN annotations |->
                        query_data_with_annotations(d, annotations[i])]
    IN  IF \E i \in DOMAIN out_data : out_data[i].err # "ok"
        THEN [err |-> out_data[CHOOSE i \in DOMAIN out_data :
                                 /\ out_data[i].err # "ok"
                                 /\ \A j \in DOMAIN out_data :
                                      out_data[j].err # "ok" => i <= j].err,
              rows |-> {}]
        ELSE IF out_data = <<>>
        THEN [err |-> "IndexError", rows |-> {}]
        ELSE [err |-> "ok",
              rows |-> MergeAll({<<row>> : row \in out_data[1].rows},
                                [i \in 1 .. Len(out_data) - 1 |-> out_data[i + 1].rows])]

-----------------------------------------------------------------------------
(* queries.py: the view builder.                                           *)

\* The pivot both views build from an annotation table: one pandas Series
\* per key in use (index = entity ids, values = the key's values, in row
\* order), put side by side with pd.concat(series, axis=1).
\*   - no key in use: pd.concat([]) raises ValueError;
\*   - every Series has the same index: the rows are taken by position;
\*   - otherwise the indexes are aligned: a repeated id raises
\*     InvalidIndexError, a missing (id, key) cell is NaN.
\* Rows are listed by ascending id where pandas aligns; `cells` maps the
\* column name of each key to the cell.
PivotKeyIds(d, rows) ==
    {r.key_id : r \in Range(rows)} \cap (1 .. Len(d.annotation_key))

PivotRowsOf(rows, kid) == SelectSeq(rows, LAMBDA r : r.key_id = kid)

PivotIndex(rows, field, kid) ==
    [i \in DOMAIN PivotRowsOf(rows, kid) |-> PivotRowsOf(rows, kid)[i][field]]

RECURSIVE SortedSeq(_)
SortedSeq(S) ==
    IF S = {} THEN <<>>
    ELSE LET m == CHOOSE x \in S : \A y \in S : x <= y
         IN  <<m>> \o SortedSeq(S \ {m})

Pivot(d, rows, field) ==
    LET kids == PivotKeyIds(d, rows)
        names == {d.annotation_key[kid] : kid \in kids}
        KidOf(name) == CHOOSE kid \in kids : d.annotation_key[kid] = name
        Idx(kid) == PivotIndex(rows, field, kid)
        Val(kid, pos) == PivotRowsOf(rows, kid)[pos].value
        first == CHOOSE kid \in kids : TRUE
        ids == SortedSeq(UNION {Range(Idx(kid)) : kid \in kids})
        Cell(kid, id) ==
            IF id \in Range(Idx(kid))
            THEN Val(kid, CHOOSE pos \in DOMAIN Idx(kid) : Idx(kid)[pos] = id)
            ELSE "NaN"
    IN  IF kids = {}
        THEN [err |-> "ValueError", rows |-> <<>>]
        ELSE IF \A kid \in kids : Idx(kid) = Idx(first)
        THEN [err |-> "ok",
              rows |-> [pos \in DOMAIN Idx(first) |->
                          [id |-> Idx(first)[pos],
                           cells |-> [n \in names |-> Val(KidOf(n), pos)]]]]
        ELSE IF \E kid \in kids : \E i, j \in DOMAIN Idx(kid) :
                    i # j /\ Idx(kid)[i] = Idx(kid)[j]
        THEN [err |-> "InvalidIndexError", rows |-> <<>>]
        ELSE [err |-> "ok",
              rows |-> [pos \in DOMAIN ids |->
                          [id |-> ids[pos],
                           cells |-> [n \in names |-> Cell(KidOf(n), ids[pos])]]]]

\* df_['location_id'] = df_.index
query_view_locations(d) ==
    LET p == Pivot(d, d.location_annotation, "location_id")
    IN  [err |-> p.err,
         rows |-> [pos \in DOMAIN p.rows |->
                     [location_id |-> p.rows[pos].id, cells |-> p.rows[pos].cells]]]

\* DataFrame.merge with no `on`: the inner join on the columns both frames
\* have.  `pairs` are the positions <<i, j>> of the rows that agree on them;
\* the merged frame lists them by the rows of the left frame, each with its
\* matches in the order of the right frame.
JoinSeq(left, right, pairs) ==
    LET width == Len(right) + 1
        order == SortedSeq({pr[1] * width + pr[2] : pr \in pairs})
    IN  [pos \in DOMAIN order |-> <<order[pos] \div width, order[pos] % width>>]

\* SELECT data.id, data.location_id, st.name FROM data INNER JOIN storage_type
select_data_and_type(d) ==
    LET ids == SortedSeq({row.id : row \in d.data})
    IN  [pos \in DOMAIN ids |->
            LET row == CHOOSE r \in d.data : r.id = ids[pos]
            IN  [data_id |-> row.id, location |-> row.location_id, format |-> row.type_id]]

MergeCells(a, b) == [n \in DOMAIN a \cup DOMAIN b |-> IF n \in DOMAIN a THEN a[n] ELSE b[n]]

\* The view of all data (no location filter): the data and their types,
\* merged with the pivot of the location annotations on `location`, then
\* with the pivot of the data annotations on `data_id` and on every column
\* name the two pivots share.
query_view_data(d) ==
    LET df_ == select_data_and_type(d)
        df_loc_ann == Pivot(d, d.location_annotation, "location_id")
        df_data_ann == Pivot(d, d.data_annotation, "data_id")
        on_location ==
            JoinSeq(df_, df_loc_ann.rows,
                    {pr \in (DOMAIN df_) \X (DOMAIN df_loc_ann.rows) :
                        df_[pr[1]].location = df_loc_ann.rows[pr[2]].id})
        with_loc == [pos \in DOMAIN on_location |->
                        [data_id |-> df_[on_location[pos][1]].data_id,
                         location |-> df_[on_location[pos][1]].location,
                         format |-> df_[on_location[pos][1]].format,
                         cells |-> df_loc_ann.rows[on_location[pos][2]].cells]]
        shared == DOMAIN df_loc_ann.rows[1].cells \cap DOMAIN df_data_ann.rows[1].cells
        on_data ==
            JoinSeq(with_loc, df_data_ann.rows,
                    {pr \in (DOMAIN with_loc) \X (DOMAIN df_data_ann.rows) :
                        /\ with_loc[pr[1]].data_id = df_data_ann.rows[pr[2]].id
                        /\ \A n \in shared :
                             with_loc[pr[1]].cells[n] = df_data_ann.rows[pr[2]].cells[n]})
    IN  IF df_loc_ann.err # "ok" THEN [err |-> df_loc_ann.err, rows |-> <<>>]
        ELSE IF df_data_ann.err # "ok" THEN [err |-> df_data_ann.err, rows |-> <<>>]
        ELSE [err |-> "ok",
              rows |-> [pos \in DOMAIN on_data |->
                          [data_id |-> with_loc[on_data[pos][1]].data_id,
                           location |-> with_loc[on_data[pos][1]].location,
                           format |-> with_loc[on_data[pos][1]].format,
                           cells |-> MergeCells(with_loc[on_data[pos][1]].cells,
                                                df_data_ann.rows[on_data[pos][2]].cells)]]]

-----------------------------------------------------------------------------
(* SxIndexLocal: the facade operations on locations.                       *)

\* A dataset name and a dataset uri are sequences of characters.
Lower(c) ==
    CASE c = "A" -> "a"
      [] c = "B" -> "b"
      [] OTHER -> c

\* name.replace(" ", "_").lower()
dataset_uri(name) ==
    [i \in DOMAIN name |-> Lower(IF name[i] = " " THEN "_" ELSE name[i])]

\* The dataset whose tables are the variables of this module.
TheDataset == <<"d">>

\* self.__workspace / uri.value, the directory of a dataset.
Dir(ws, uri) == <<ws, uri>>

\* The keys of the dict: uri.value, a str, and dataset_path, a Path.
StrKey(uri) == <<"str", "", uri>>

PathKey(dataset_path) == <<"Path", dataset_path[1], dataset_path[2]>>

HandleOf(c, key) == (CHOOSE e \in c : e[1] = key)[2]

\* A variant that opens a connection at every call.
get_connection_uncached(c, o, ds, db_dir, uri) ==
    IF db_dir \notin ds
    THEN [err |-> "OperationalError", conn |-> c, opened |-> o, handle |-> NULL]
    ELSE [err |-> "ok",
          conn |-> {e \in c : e[1] # StrKey(uri)} \cup {<<StrKey(uri), Len(o) + 1>>},
          opened |-> Append(o, db_dir),
          handle |-> Len(o) + 1]

\* __get_connection on the dict c, the connections o opened so far and the
\* directories ds, db_dir being the directory of db_file: the handle cached
\* under uri.value, or a new connection to db_file stored under uri.value.
\* sqlite3.connect() raises when the directory of index.db is missing, and
\* then nothing is stored.
get_connection(c, o, ds, db_dir, uri) ==
    IF \E e \in c : e[1] = StrKey(uri)
    THEN [err |-> "ok", conn |-> c, opened |-> o, handle |-> HandleOf(c, StrKey(uri))]
    ELSE IF db_dir \notin ds
    THEN [err |-> "OperationalError", conn |-> c, opened |-> o, handle |-> NULL]
    ELSE [err |-> "ok",
          conn |-> c \cup {<<StrKey(uri), Len(o) + 1>>},
          opened |-> Append(o, db_dir),
          handle |-> Len(o) + 1]

\* An operation on TheDataset starts with __get_connection(dataset.uri).
Return(op, arg, st, result) ==
    LET c == get_connection(conn, opened, dirs, Dir(workspace, TheDataset), TheDataset)
    IN  /\ last' = <<op, arg, st, result>>
        /\ conn' = c.conn
        /\ opened' = c.opened
        /\ UNCHANGED <<dirs, workspace, closes>>

Ok(op, arg, result) == Return(op, arg, "ok", result)

Raised(op, arg, error) == Return(op, arg, error, {})

RECURSIVE AnnotateLocationItems(_, _, _)
AnnotateLocationItems(d, location_id, items) ==
    IF items = <<>> THEN d
    ELSE AnnotateLocationItems(
            insert_location_annotation(d, location_id, Head(items)[1], Head(items)[2]),
            location_id, Tail(items))

new_location(annotations) ==
    LET r == insert_location(DB)
        d2 == IF annotations # None
              THEN AnnotateLocationItems(r.db, r.id, Some(annotations))
              ELSE r.db
    IN  /\ Commit(d2)
        /\ Ok("new_location", annotations, r.id)

annotate_location(loc, key, value) ==
    /\ Commit(insert_location_annotation(DB, loc, key, value))
    /\ Ok("annotate_location", <<loc, key, value>>, {})

SxIndexLocal_query_location(annotations) ==
    /\ Ok("query_location", annotations, query_location(DB, annotations))
    /\ UNCHANGED tables

view_locations ==
    LET v == query_view_locations(DB)
    IN  /\ IF v.err = "ok"
           THEN Ok("view_locations", {}, v.rows)
           ELSE Raised("view_locations", {}, v.err)
        /\ UNCHANGED tables

-----------------------------------------------------------------------------
(* SxIndexLocal: the facade operations on data.                            *)

\* create_data is given a Dataset or a Location as the place of the data.
Dataset == {}

RECURSIVE AnnotateDataItems(_, _, _)
AnnotateDataItems(d, uri, items) ==
    IF items = <<>> THEN [err |-> "ok", db |-> d]
    ELSE LET r == insert_data_annotation(d, uri, Head(items)[1], Head(items)[2])
         IN  IF r.err # "ok" THEN r
             ELSE AnnotateDataItems(r.db, uri, Tail(items))

\* A missing `annotations` is None, and None.items() raises AttributeError
\* once the data row is committed.
\* The call is recorded with its uri, its storage type and whether it was
\* given annotations.
create_data(loc, uri, type, annotations, metadata_uri) ==
    LET placed == IF loc = Dataset
                  THEN insert_location(DB)
                  ELSE [db |-> DB, id |-> Some(loc)]
        metadata_str == IF metadata_uri # None THEN Some(metadata_uri) ELSE ""
        inserted == insert_data(placed.db, placed.id, uri, type, metadata_str)
        annotated == IF annotations = None
                     THEN [err |-> "AttributeError", db |-> inserted.db]
                     ELSE AnnotateDataItems(inserted.db, uri, Some(annotations))
    IN  IF inserted.err # "ok"
        THEN /\ IF loc = Dataset THEN Commit(inserted.db) ELSE Pending(inserted.db)
             /\ Raised("create_data", <<uri, type, annotations # None>>, inserted.err)
        ELSE IF annotated.err # "ok"
        THEN Commit(annotated.db) /\ Raised("create_data", <<uri, type, annotations # None>>, annotated.err)
        ELSE Commit(annotated.db) /\ Ok("create_data", <<uri, type, annotations # None>>, placed.id)

\* When the INSERT of the row fails, the only commit made is the one of a
\* key that was new.
annotate_data(uri, key, value) ==
    LET r == insert_data_annotation(DB, uri, key, value)
    IN  /\ IF r.err = "ok" \/ KeyRows(DB, key) = {}
           THEN Commit(r.db)
           ELSE Pending(r.db)
        /\ IF r.err = "ok"
           THEN Ok("annotate_data", <<uri, key, value>>, {})
           ELSE Raised("annotate_data", <<uri, key, value>>, r.err)

delete(uri) ==
    /\ Commit(query_delete(DB, uri))
    /\ Ok("delete", uri, {})

\* delete when the second cur.execute of query_delete raises (a full disk,
\* an I/O error, an interrupt): the exception leaves query_delete before
\* conn.commit(), nothing rolls back, and the first DELETE stays in the open
\* transaction of the cached connection.
delete_failing(uri) ==
    /\ Pending(delete_data_annotation(DB, uri))
    /\ Raised("delete", uri, "sqlite3.Error")

\* annotations.keys() on a missing mapping raises AttributeError.
query_data_single(annotations) ==
    LET r == query_data_with_annotations(DB, Some(annotations))
    IN  /\ IF annotations = None
           THEN Raised("query_data", annotations, "AttributeError")
           ELSE IF r.err = "ok"
           THEN Ok("query_data", annotations, r.rows)
           ELSE Raised("query_data", annotations, r.err)
        /\ UNCHANGED tables

query_data_loc_set(annotations) ==
    LET r == query_data_tuples(DB, annotations)
    IN  /\ IF r.err = "ok"
           THEN Ok("query_data_tuples", annotations, r.rows)
           ELSE Raised("query_data_tuples", annotations, r.err)
        /\ UNCHANGED tables

\* With locations given, [loc.id for loc in locations] and, past it, the
\* text `location_id IN 1,2` without brackets make the call raise.
view_data(locations) ==
    LET v == query_view_data(DB)
    IN  /\ IF locations # None /\ Some(locations) # {}
           THEN \E error \in {"AttributeError", "OperationalError"} :
                    Raised("view_data", locations, error)
           ELSE IF v.err = "ok"
           THEN Ok("view_data", locations, v.rows)
           ELSE Raised("view_data", locations, v.err)
        /\ UNCHANGED tables

-----------------------------------------------------------------------------
(* The dataset right after new_dataset.                                    *)

Init ==
    /\ location = {}
    /\ annotation_key = <<>>
    /\ location_annotation = <<>>
    /\ data = {}
    /\ data_annotation = <<>>
    /\ committed = DB
    /\ last = <<"new_dataset", {}, "ok", {}>>
    /\ workspace = "w1"
    /\ dirs = {Dir("w1", TheDataset)}
    /\ conn = {<<StrKey(TheDataset), 1>>, <<PathKey(Dir("w1", TheDataset)), 1>>}
    /\ opened = <<Dir("w1", TheDataset)>>
    /\ closes = <<>>

OptDicts == {None} \cup {{items} : items \in Dicts}

OptMappings == {None} \cup {{M} : M \in Mappings}

\* Locations only: the callers create and annotate locations and query them.
NextLocation ==
    \/ \E annotations \in OptDicts :
        /\ Cardinality(location) < MaxLoc
        /\ annotations # None =>
             Len(location_annotation) + Len(Some(annotations)) <= MaxLocAnn
        /\ new_location(annotations)
    \/ \E loc \in location, key \in Keys, value \in PyValues :
        /\ Len(location_annotation) < MaxLocAnn
        /\ annotate_location(loc, key, value)
    \/ \E annotations \in OptMappings :
        SxIndexLocal_query_location(annotations)
    \/ view_locations

SpecLocation == Init /\ [][NextLocation]_vars

\* The data operations are driven with text and integer values.
DataValues == {"'a'", "1"}

DataDicts == {None} \cup {{items} : items \in {s \in Dicts :
                 /\ Len(s) <= MaxDictLen
                 /\ \A i \in DOMAIN s : s[i][2] \in DataValues}}

\* The annotations the locations of the data are created with.
LocationDicts == {x \in DataDicts : x = None \/ \A i \in DOMAIN Some(x) : Some(x)[i][2] = "'a'"}

DataMappings == {None} \cup {{M} : M \in {m \in Mappings :
                    \A k \in DOMAIN m : m[k] \in DataValues}}

\* The mappings the tuple queries are made of.
TupleMappings == {M \in Mappings : DOMAIN M = {"channel"} /\ M["channel"] \in DataValues}

MetadataArgs == {None}

\* Callers that create locations and data within the bounds.
CreateLocation(dicts) ==
    \E annotations \in dicts :
        /\ Cardinality(location) < MaxLoc
        /\ annotations # None =>
             Len(location_annotation) + Len(Some(annotations)) <= MaxLocAnnData
        /\ new_location(annotations)

CreateData(types, dicts, max_ann) ==
    \E loc \in {Dataset} \cup {{l} : l \in location}, uri \in URIs,
       type \in types, annotations \in dicts, metadata_uri \in MetadataArgs :
        /\ loc = Dataset => Cardinality(location) < MaxLoc
        /\ NextRowId(data) <= MaxDataId
        /\ annotations # None =>
             Len(data_annotation) + Len(Some(annotations)) <= max_ann
        /\ create_data(loc, uri, type, annotations, metadata_uri)

\* Data: the callers create, annotate and delete data and query them.
Next ==
    \/ CreateLocation(LocationDicts)
    \/ CreateData(StorageArgs, DataDicts, MaxDataAnnSpec)
    \/ \E uri \in URIs, key \in Keys, val \in DataValues :
        /\ Len(data_annotation) < MaxDataAnnSpec
        /\ annotate_data(uri, key, val)
    \/ \E uri \in URIs : delete(uri)
    \/ \E annotations \in DataMappings : query_data_single(annotations)

Spec == Init /\ [][Next]_vars

\* Views: the callers create locations and data and read tuples and views.
NextView ==
    \/ CreateLocation(LocationDicts)
    \/ CreateData({"image"}, DataDicts, MaxDataAnn)
    \/ \E annotations \in SeqsUpTo(TupleMappings, MaxTuple) :
        query_data_loc_set(annotations)
    \/ \E locations \in {None, {location}} :
        view_data(locations)

SpecView == Init /\ [][NextView]_vars

\* Deletions that may fail at their second statement, among operations that
\* commit on the same connection.
NextFault ==
    \/ CreateLocation(LocationDicts)
    \/ CreateData({"image"}, DataDicts, MaxDataAnnSpec)
    \/ \E uri \in URIs, key \in Keys, val \in DataValues :
        /\ Len(data_annotation) < MaxDataAnnSpec
        /\ annotate_data(uri, key, val)
    \/ \E uri \in URIs : delete(uri)
    \/ \E uri \in URIs : delete_failing(uri)

SpecFault == Init /\ [][NextFault]_vars

\* Data and locations annotated with values of every type, and queried.
TypedDicts == {None} \cup {{items} : items \in {s \in Dicts : Len(s) <= MaxDictLen}}

NextTyped ==
    \/ CreateLocation(TypedDicts)
    \/ CreateData({"image"}, TypedDicts, MaxDataAnnSpec)
    \/ \E annotations \in OptMappings : query_data_single(annotations)

SpecTyped == Init /\ [][NextTyped]_vars

-----------------------------------------------------------------------------
(* The connections of the facade over the datasets of a workspace. The     *)
(* callers create datasets and read their locations, so that the tables    *)
(* of every dataset are the empty ones of init_database.                   *)

\* Titles the datasets are created with, and uris the callers ask for.
DatasetNames == {<<"A", " ", "B">>, <<"a", "_", "b">>, <<"B">>, <<"c">>}

DatasetURIs == {dataset_uri(name) : name \in DatasetNames} \cup {<<"x">>}

new_dataset(name) ==
    LET uri == dataset_uri(name)
        dataset_path == Dir(workspace, uri)
        made == dirs \cup {dataset_path}
        c == get_connection(conn, opened, made, dataset_path, uri)
    IN  IF dataset_path \in dirs
        THEN /\ last' = <<"new_dataset", name, "ValueError", {}>>
             /\ UNCHANGED <<tables, dirs, conn, opened, workspace, closes>>
        ELSE /\ last' = <<"new_dataset", name, "ok", uri>>
             /\ dirs' = made
             /\ conn' = c.conn \cup {<<PathKey(dataset_path), c.handle>>}
             /\ opened' = c.opened
             /\ UNCHANGED <<tables, workspace, closes>>

\* query_location on the dataset of the given uri.
query_location_of(uri, annotations) ==
    LET c == get_connection(conn, opened, dirs, Dir(workspace, uri), uri)
    IN  /\ IF c.err # "ok"
           THEN last' = <<"query_location", <<uri, annotations>>, c.err, {}>>
           ELSE last' = <<"query_location", <<uri, annotations>>, "ok",
                          <<c.handle, query_location(DB, annotations)>>>>
        /\ conn' = c.conn
        /\ opened' = c.opened
        /\ UNCHANGED <<tables, dirs, workspace, closes>>

\* A facade with its workspace connected, over datasets left by earlier runs.
InitConn ==
    /\ location = {}
    /\ annotation_key = <<>>
    /\ location_annotation = <<>>
    /\ data = {}
    /\ data_annotation = <<>>
    /\ committed = DB
    /\ last = <<"connect", {}, "ok", {}>>
    /\ workspace = "w1"
    /\ dirs \in SUBSET {Dir("w1", <<"c">>)}
    /\ conn = {}
    /\ opened = <<>>
    /\ closes = <<>>

\* __del__: conn.close() on every value of the dict.
SxIndexLocal_del ==
    /\ closes' = [h \in 1..Len(opened) |-> Cardinality({e \in conn : e[2] = h})]
    /\ last' = <<"__del__", {}, "ok", {}>>
    /\ UNCHANGED <<tables, dirs, conn, opened, workspace>>

\* No call is made on a facade that was torn down.
Alive == ret.call # "__del__"

NextConn ==
    \/ \E name \in DatasetNames : Alive /\ new_dataset(name)
    \/ \E uri \in DatasetURIs, annotations \in {None, {<<>>}} :
        Alive /\ query_location_of(uri, annotations)
    \/ Alive /\ SxIndexLocal_del

SpecConn == InitConn /\ [][NextConn]_vars

\* The workspaces a caller connects the facade to.
Workspaces == {"w1", "w2"}

\* connect(workspace): the facade's workspace is replaced; the dict of
\* connections is left as it is.
connect(ws) ==
    /\ workspace' = ws
    /\ last' = <<"connect", ws, "ok", {}>>
    /\ UNCHANGED <<tables, dirs, conn, opened, closes>>

\* Two workspaces with datasets left by earlier runs, some under one uri in
\* both.
InitWorkspace ==
    /\ location = {}
    /\ annotation_key = <<>>
    /\ location_annotation = <<>>
    /\ data = {}
    /\ data_annotation = <<>>
    /\ committed = DB
    /\ last = <<"connect", "w1", "ok", {}>>
    /\ workspace = "w1"
    /\ dirs \in SUBSET {Dir(ws, uri) : ws \in Workspaces, uri \in {<<"b">>, <<"c">>}}
    /\ conn = {}
    /\ opened = <<>>
    /\ closes = <<>>

NextWorkspace ==
    \/ \E ws \in Workspaces : connect(ws)
    \/ \E uri \in {<<"b">>, <<"c">>}, annotations \in {None, {<<>>}} :
        query_location_of(uri, annotations)

SpecWorkspace == InitWorkspace /\ [][NextWorkspace]_vars

-----------------------------------------------------------------------------
(* Properties of the connections, checked under SpecConn.                  *)

\* C15: per dataset uri at most one connection is opened; an access to a
\* dataset that has a connection returns the cached handle and opens
\* nothing; no entry of the dict is removed or given another handle.
C15_OneConnectionPerDataset ==
    [][/\ \A i, j \in DOMAIN opened' : opened'[i][2] = opened'[j][2] => i = j
       /\ conn \subseteq conn'
       /\ \A e, f \in conn' : e[1] = f[1] => e[2] = f[2]
       /\ (/\ ret'.call = "query_location"
           /\ \E e \in conn : e[1] = StrKey(ret'.param[1]))
          => /\ ret'.status = "ok"
             /\ ret'.value[1] = HandleOf(conn, StrKey(ret'.param[1]))
             /\ opened' = opened]_vars

\* Two datasets are connected and the one connected first was read again
\* through its first handle.
C15_Witness ==
    /\ Len(opened) = 2
    /\ ret.call = "query_location"
    /\ ret.status = "ok"
    /\ ret.param[1] = opened[1][2]
    /\ ret.value[1] = 1

\* C22: when the facade is torn down, close() is called exactly once on
\* every connection it opened, the connection of a dataset made by
\* new_dataset included.
C22_EveryConnectionClosedOnce ==
    ret.call = "__del__" =>
        /\ DOMAIN closes = 1..Len(opened)
        /\ \A h \in DOMAIN closes : closes[h] = 1

\* C25: the handle an operation on a dataset uri is served by is a
\* connection to the index file of that uri in the facade's current
\* workspace.
C25_HandleIsOfCurrentWorkspace ==
    (ret.call = "query_location" /\ ret.status = "ok")
        => opened[ret.value[1]] = Dir(workspace, ret.param[1])

-----------------------------------------------------------------------------
(* Properties of the location operations, checked under SpecLocation.      *)

\* The dict a query_location call was given, once it has returned.
QueriedMapping == Some(ret.param)

LocationQueryReturned ==
    /\ ret.call = "query_location"
    /\ ret.param # None
    /\ DOMAIN Some(ret.param) # {}

\* Location l carries the pair (key, value): a row that annotate_location
\* stored for it.
HasPair(d, l, key, value) ==
    \E r \in Range(d.location_annotation) :
        /\ r.location_id = l
        /\ KeyIdOf(d, key) # NULL
        /\ r.key_id = KeyIdOf(d, key)
        /\ r.value = BindText(value)

\* C1: in a dataset whose only location L was created by new_location with
\* the non-empty mapping M (one annotation per key), query_location(M)
\* returns exactly {L}.
C1_FreshLocationIsFound ==
    [][(/\ ret.call = "new_location"
        /\ ret.param # None
        /\ Some(ret.param) # <<>>
        /\ location = {ret.value}
        /\ ret'.call = "query_location"
        /\ ret'.param = {AsMapping(Some(ret.param))})
       => ret'.value = {ret.value}]_vars

\* C2: superset law: a location returned by query_location(M), M non-empty,
\* carries every pair of M; a location missing a pair of M is not returned.
C2_SupersetLaw ==
    LocationQueryReturned =>
        \A l \in ret.value : \A key \in DOMAIN QueriedMapping :
            HasPair(DB, l, key, QueriedMapping[key])

\* C3 as stated: a location annotated with key k and value v1 and later with
\* k and another value is not returned by a query whose mapping has k = v1.
C3_SecondValueHidesFirst ==
    LocationQueryReturned =>
        \A l \in location : \A key \in DOMAIN QueriedMapping :
            (\E i, j \in DOMAIN location_annotation :
                /\ i < j
                /\ location_annotation[i].location_id = l
                /\ location_annotation[j].location_id = l
                /\ location_annotation[i].key_id = KeyIdOf(DB, key)
                /\ location_annotation[j].key_id = KeyIdOf(DB, key)
                /\ location_annotation[i].value = FString(QueriedMapping[key])
                /\ location_annotation[j].value # location_annotation[i].value)
            => l \notin ret.value

\* C3 as amended: annotating a location again with key k and a value stored
\* as another text than the one a query asks for under k leaves the answer of
\* that query about the location as it was: a location that satisfied a
\* query with k = v1 still satisfies it.
C3_SecondValueKeepsMatch ==
    [][ret'.call = "annotate_location" =>
         \A M \in Mappings :
            (/\ ret'.param[2] \in DOMAIN M
             /\ BindText(ret'.param[3]) # FString(M[ret'.param[2]]))
            => ((ret'.param[1] \in query_location(DB, {M})')
                  <=> (ret'.param[1] \in query_location(DB, {M})))]_vars

\* A location annotated with a key twice, with two values, that satisfies
\* the query for the first value.
C3_Witness ==
    /\ ret.call = "annotate_location"
    /\ \E i, j \in DOMAIN location_annotation :
        /\ i < j
        /\ location_annotation[i].location_id = ret.param[1]
        /\ location_annotation[j].location_id = ret.param[1]
        /\ location_annotation[i].key_id = location_annotation[j].key_id
        /\ location_annotation[i].key_id = KeyIdOf(DB, ret.param[2])
        /\ location_annotation[i].value = "a"
        /\ location_annotation[j].value = "1"
    /\ ret.param[1] \in query_location(DB, {[k \in {ret.param[2]} |-> "'a'"]})

\* Key `key` is in use: some annotation row of either table has it.
KeyInUse(d, key) ==
    \E r \in Range(d.location_annotation) \cup Range(d.data_annotation) :
        KeyIdOf(d, key) # NULL /\ r.key_id = KeyIdOf(d, key)

\* C7: query_location with a non-empty mapping that has a key never used in
\* the dataset raises NoMatchingAnnotations.
C7_UnusedKeyRaises ==
    (LocationQueryReturned \/ (ret.call = "query_location" /\ ret.status # "ok"))
        => ((\E key \in DOMAIN QueriedMapping : ~KeyInUse(DB, key))
               => ret.status = "NoMatchingAnnotations")

\* The value location l has under the key named `name`, NaN if none.
LocationCell(d, l, name) ==
    IF \E r \in Range(d.location_annotation) :
            r.location_id = l /\ d.annotation_key[r.key_id] = name
    THEN (CHOOSE r \in Range(d.location_annotation) :
            r.location_id = l /\ d.annotation_key[r.key_id] = name).value
    ELSE "NaN"

\* C10: view_locations on a dataset with locations returns one row per
\* location and one column per key used on a location, the cell being the
\* location's value or the no-value marker; it does not raise.
C10_ViewLocationsComplete ==
    (ret.call = "view_locations" /\ location # {}) =>
        /\ ret.status = "ok"
        /\ Len(ret.value) = Cardinality(location)
        /\ {ret.value[i].location_id : i \in DOMAIN ret.value} = location
        /\ \A i \in DOMAIN ret.value :
            /\ DOMAIN ret.value[i].cells =
                 {annotation_key[r.key_id] : r \in Range(location_annotation)}
            /\ \A name \in DOMAIN ret.value[i].cells :
                 ret.value[i].cells[name] =
                    LocationCell(DB, ret.value[i].location_id, name)

\* C11: query_location with no mapping (None) or with the empty mapping
\* returns every location of the dataset, annotated or not.
C11_NoMappingReturnsAllLocations ==
    (/\ ret.call = "query_location"
     /\ (ret.param = None \/ DOMAIN Some(ret.param) = {}))
    => /\ ret.status = "ok"
       /\ ret.value = location

\* The query without mapping answered on a dataset that has a location with
\* annotations and a location without.
C11_Witness ==
    /\ ret.call = "query_location"
    /\ (ret.param = None \/ DOMAIN Some(ret.param) = {})
    /\ ret.value = location
    /\ \E l \in location : \E r \in Range(location_annotation) : r.location_id = l
    /\ \E l \in location : \A r \in Range(location_annotation) : r.location_id # l


\* C24: a location that query_location returns for a mapping M is still
\* returned for M after any annotate_location call on it.
C24_AnnotatingKeepsMatches ==
    [][ret'.call = "annotate_location" =>
          LET after == [DB EXCEPT !.location = location',
                                  !.annotation_key = annotation_key',
                                  !.location_annotation = location_annotation']
          IN  \A M \in Mappings :
                (DOMAIN M # {} /\ ret'.param[1] \in query_location(DB, {M}))
                    => ret'.param[1] \in query_location(after, {M})]_vars

-----------------------------------------------------------------------------
(* Properties of the data operations, checked under Spec.                  *)

C5_DuplicateAlwaysRefusedAsDuplicate ==
    [][/\ (ret'.call = "create_data"
           /\ \E row \in data : row.uri = ret'.param[1])
          => ret'.status = "DuplicateURI"
       /\ \A r1, r2 \in data' : r1.uri = r2.uri => r1 = r2]_vars

\* C5 as amended: create_data with a recognised storage type and a uri that
\* a data row already has fails with DuplicateURI, whatever its location and
\* annotations, and leaves the data and their annotations as they were; no
\* two data rows have the same uri.
C5_DuplicateURIRefused ==
    [][/\ (ret'.call = "create_data"
           /\ ret'.param[2] \in storage_type
           /\ \E row \in data : row.uri = ret'.param[1])
          => /\ ret'.status = "DuplicateURI"
             /\ data' = data
             /\ data_annotation' = data_annotation
       /\ \A r1, r2 \in data' : r1.uri = r2.uri => r1 = r2]_vars

\* create_data was refused for a uri that a data row has.
C5_Witness ==
    /\ ret.call = "create_data"
    /\ ret.status = "DuplicateURI"
    /\ \E row \in data : row.uri = ret.param[1]

\* C6: query_data with a mapping that has a key in use in neither annotation
\* table raises NoMatchingAnnotations, also when other keys of the mapping
\* are in use.
C6_UnusedKeyRaises ==
    (/\ ret.call = "query_data"
     /\ ret.param # None
     /\ \E key \in DOMAIN Some(ret.param) : ~KeyInUse(DB, key))
    => ret.status = "NoMatchingAnnotations"

\* C12: query_data with the empty mapping returns all the data of the
\* dataset; it does not fail.
C12_EmptyMappingReturnsAllData ==
    (/\ ret.call = "query_data"
     /\ ret.param # None
     /\ DOMAIN Some(ret.param) = {})
    => /\ ret.status = "ok"
       /\ ret.value = {DataRow(row) : row \in data}

\* C13: create_data called without annotations, with a recognised storage
\* type and a uri no data has, returns and leaves one data row of the uri
\* and no annotation row of it.
C13_AnnotationsAreOptional ==
    [][(/\ ret'.call = "create_data"
        /\ ~ret'.param[3]
        /\ ret'.param[2] \in storage_type
        /\ UriIsFree(DB, ret'.param[1]))
       => /\ ret'.status = "ok"
          /\ Cardinality({row \in data' : row.uri = ret'.param[1]}) = 1
          /\ data_annotation' = data_annotation]_vars

DataHasPair(d, id, key, value) ==
    \E r \in Range(d.data_annotation) :
        /\ r.data_id = id
        /\ KeyIdOf(d, key) # NULL
        /\ r.key_id = KeyIdOf(d, key)
        /\ r.value = BindText(value)

\* Every pair of M is among the annotations of the data or of its location.
Satisfies(d, row, M) ==
    \A key \in DOMAIN M :
        \/ DataHasPair(d, row.id, key, M[key])
        \/ HasPair(d, row.location_id, key, M[key])

\* No location and no data carries two annotations with one key.
OnePerKey(d) ==
    /\ \A i, j \in DOMAIN d.location_annotation :
         (/\ d.location_annotation[i].location_id = d.location_annotation[j].location_id
          /\ d.location_annotation[i].key_id = d.location_annotation[j].key_id) => i = j
    /\ \A i, j \in DOMAIN d.data_annotation :
         (/\ d.data_annotation[i].data_id = d.data_annotation[j].data_id
          /\ d.data_annotation[i].key_id = d.data_annotation[j].key_id) => i = j

\* Key `key` is observed among the rows of an annotation table.
Observed(d, rows, key) ==
    \E r \in Range(rows) : KeyIdOf(d, key) # NULL /\ r.key_id = KeyIdOf(d, key)

QueryDataCalled ==
    /\ ret.call = "query_data"
    /\ ret.param # None
    /\ DOMAIN Some(ret.param) # {}

\* C16: with one annotation per key on each entity, a data that query_data
\* returns for M has every pair of M among its own annotations or among the
\* annotations of its location.
C16_ReturnedDataSatisfyMapping ==
    (QueryDataCalled /\ ret.status = "ok" /\ OnePerKey(DB))
    => \A row \in data :
          DataRow(row) \in ret.value => Satisfies(DB, row, Some(ret.param))

\* C17: with one annotation per key on each entity and keys of M observed
\* in both annotation tables, query_data returns every data that has every
\* pair of M among its own annotations or among those of its location.
C17_SatisfyingDataAreReturned ==
    (/\ QueryDataCalled
     /\ OnePerKey(DB)
     /\ \E key \in DOMAIN Some(ret.param) : Observed(DB, location_annotation, key)
     /\ \E key \in DOMAIN Some(ret.param) : Observed(DB, data_annotation, key))
    => /\ ret.status = "ok"
       /\ \A row \in data :
            Satisfies(DB, row, Some(ret.param)) => DataRow(row) \in ret.value

\* C18: when every key of a non-empty M is observed in data annotations and
\* not in location annotations, and no data carries a key twice, query_data
\* returns exactly the data whose own annotations have every pair of M.
C18_DataOnlyExact ==
    (/\ QueryDataCalled
     /\ OnePerKey(DB)
     /\ \A key \in DOMAIN Some(ret.param) :
          /\ Observed(DB, data_annotation, key)
          /\ ~Observed(DB, location_annotation, key))
    => /\ ret.status = "ok"
       /\ ret.value = {DataRow(row) : row \in
            {row \in data : \A key \in DOMAIN Some(ret.param) :
                DataHasPair(DB, row.id, key, Some(ret.param)[key])}}

\* C19: when every key of a non-empty M is observed in location annotations
\* and not in data annotations, and no location carries a key twice,
\* query_data returns exactly the data placed at a location whose
\* annotations have every pair of M.
C19_LocationOnlyExact ==
    (/\ QueryDataCalled
     /\ OnePerKey(DB)
     /\ \A key \in DOMAIN Some(ret.param) :
          /\ Observed(DB, location_annotation, key)
          /\ ~Observed(DB, data_annotation, key))
    => /\ ret.status = "ok"
       /\ ret.value = {DataRow(row) : row \in
            {row \in data : \A key \in DOMAIN Some(ret.param) :
                HasPair(DB, row.location_id, key, Some(ret.param)[key])}}

\* C20: the annotation_key table holds at most one row per name; interning
\* a name again returns the id it was given and adds no row; the annotation
\* rows of locations and of data refer to the one row of their key, so a
\* key used on a location and on a data has one id.
C20_KeysInternedOnce ==
    /\ \A i, j \in DOMAIN annotation_key :
         annotation_key[i] = annotation_key[j] => i = j
    /\ \A key \in Keys :
         LET first == insert_annotation_key(DB, key)
             again == insert_annotation_key(first.db, key)
         IN  /\ again.id = first.id
             /\ again.db = first.db
             /\ first.db.annotation_key[first.id] = key
    /\ \A r \in Range(location_annotation) \cup Range(data_annotation) :
         r.key_id \in DOMAIN annotation_key

\* Both keys are interned and one of them is used on a location and on a
\* data.
C20_Witness ==
    /\ Len(annotation_key) = 2
    /\ \E la \in Range(location_annotation), da \in Range(data_annotation) :
         la.key_id = da.key_id

\* C23: a create_data call that fails on a duplicate uri or on an unknown
\* storage type leaves every table as it was: no data row, no annotation
\* row and no new location row.
C23_FailedCreateChangesNothing ==
    [][(/\ ret'.call = "create_data"
        /\ ret'.status \in {"DuplicateURI", "UnknownStorageType"})
       => UNCHANGED tables]_vars

-----------------------------------------------------------------------------
(* Properties of deletion under failure, checked under SpecFault.          *)

\* The annotation rows of the data with id `id` in the tables d.
AnnotationsOf(d, id) == {r \in Range(d.data_annotation) : r.data_id = id}

\* C21: from one committed state to the next, a data either keeps its row
\* and its annotation rows or loses both; no committed state has annotation
\* rows of a data that has no row.
C21_DeleteIsAtomic ==
    [][/\ \A row \in committed.data :
            IF row \in committed'.data
            THEN AnnotationsOf(committed, row.id) \subseteq AnnotationsOf(committed', row.id)
            ELSE AnnotationsOf(committed', row.id) = {}
       /\ \A r \in Range(committed'.data_annotation) :
            \E row \in committed'.data : row.id = r.data_id]_vars

-----------------------------------------------------------------------------
(* Properties of the tuples and the data view, checked under SpecView.     *)

\* The data rows that query_data returns for mapping M.
Matches(M) == query_data_with_annotations(DB, M).rows

\* The annotation rows of the data with uri u, as (key name, stored value).
OwnPairs(u) ==
    {<<annotation_key[r.key_id], r.value>> :
        r \in {x \in Range(data_annotation) : x.data_id = DataIdOf(DB, u)}}

\* C8: query_data_tuples([M1..Mk]), k >= 1, every Mi answered by query_data,
\* returns exactly the tuples (d1..dk) with di in the result of
\* query_data(Mi) and all di at one location.  In particular two data at one
\* location, one tagged channel='a' and one channel=1, with no location
\* annotated with channel, give the one tuple pairing them.
C8_TuplesAreSameLocationMatches ==
    (/\ ret.call = "query_data_tuples"
     /\ Len(ret.param) >= 1
     /\ \A i \in DOMAIN ret.param :
          query_data_with_annotations(DB, ret.param[i]).err = "ok")
    => /\ ret.status = "ok"
       /\ ret.value =
            {t \in SeqsUpTo({DataRow(row) : row \in data}, Len(ret.param)) :
                /\ Len(t) = Len(ret.param)
                /\ \A i \in DOMAIN t : t[i] \in Matches(ret.param[i])
                /\ \A i, j \in DOMAIN t : t[i].location_id = t[j].location_id}
       /\ \A d1, d2 \in data :
            (/\ d1.location_id = d2.location_id
             /\ data = {d1, d2}
             /\ OwnPairs(d1.uri) = {<<"channel", "a">>}
             /\ OwnPairs(d2.uri) = {<<"channel", "1">>}
             /\ RowsWithKeyIn(DB, location_annotation, {"channel"}) = {}
             /\ ret.param = <<[k \in {"channel"} |-> "'a'"],
                              [k \in {"channel"} |-> "1"]>>)
            => ret.value = {<<DataRow(d1), DataRow(d2)>>}

\* Two data at one location, matched by two different mappings, are paired.
C8_Witness ==
    /\ ret.call = "query_data_tuples"
    /\ ret.status = "ok"
    /\ Len(ret.param) = 2
    /\ ret.param[1] # ret.param[2]
    /\ \E t \in ret.value : t[1].uri # t[2].uri

\* The value the data with id `id` has under the key named `name`: its own,
\* else its location's, else the no-value marker.
DataCell(d, id, name) ==
    LET own == {r \in Range(d.data_annotation) :
                    r.data_id = id /\ d.annotation_key[r.key_id] = name}
        row == CHOOSE x \in d.data : x.id = id
    IN  IF own # {} THEN (CHOOSE r \in own : TRUE).value
        ELSE LocationCell(d, row.location_id, name)

\* C9: view_data without a location filter returns one row per data, with
\* its location, its storage type and one column per key in use, the cell
\* being the value of the data or of its location, or the no-value marker;
\* data without annotations, or at a location without annotations, appear.
C9_ViewDataComplete ==
    (ret.call = "view_data" /\ ret.param = None /\ data # {}) =>
        /\ ret.status = "ok"
        /\ Len(ret.value) = Cardinality(data)
        /\ \A row \in data : \E i \in DOMAIN ret.value :
            /\ ret.value[i].data_id = row.id
            /\ ret.value[i].location = row.location_id
            /\ ret.value[i].format = row.type_id
            /\ DOMAIN ret.value[i].cells =
                 {annotation_key[r.key_id] :
                     r \in Range(location_annotation) \cup Range(data_annotation)}
            /\ \A name \in DOMAIN ret.value[i].cells :
                 ret.value[i].cells[name] = DataCell(DB, row.id, name)

====
